---- MODULE Spec2Model ----
(***************************************************************************)
(* Model of the model selectors (my_model_selectors.py) and of the         *)
(* recognizer (my_recognizer.py).                                          *)
(*                                                                         *)
(* The HMM library is an external collaborator: GaussianHMM(...).fit       *)
(* either returns a model or raises, and model.score either returns a      *)
(* finite log-likelihood or raises.  Fitting is deterministic for a fixed  *)
(* random_state, so the fit outcome per state count is an input fixed at   *)
(* construction (fitOK); the value of every score call is an input of the  *)
(* step that makes the call.                                               *)
(*                                                                         *)
(* Log-likelihoods are integers (fixed-point units).  A Python float is a  *)
(* pair <<tag, v>> with tag "fin", "inf", "-inf" or "nan", so that the     *)
(* sentinels float("inf") / float("-inf") of the code and their IEEE       *)
(* comparisons are modelled as the code computes them.  <<"raise", 0>> is  *)
(* a call that raised.                                                     *)
(***************************************************************************)
EXTENDS Integers, Sequences, FiniteSets, TLC

-----------------------------------------------------------------------------
(* Bounds of the model *)

\* largest candidate state count searched (the code's default is 10)
max_n_components == 3
\* log-likelihoods seen by SelectorBIC range over -MaxL..MaxL
MaxL == 4
\* log-likelihoods seen by SelectorDIC and SelectorCV range over -MaxS..1
MaxS == 1
\* X.shape[1], the feature dimension, ranges over 1..MaxD
MaxD == 2
\* np.log(X.shape[0]) ranges over 0..MaxLogN (0 is ln 1)
MaxLogN == 1
\* len(self.words), the number of items of the dataset, ranges over 1..MaxWords
MaxWords == 3
\* len(self.sequences) ranges over 1..MaxSeq
MaxSeq == 4
\* the model mapping given to recognize holds at most MaxModels entries
MaxModels == 2
\* log-likelihoods seen by recognize range over -MaxR..0
MaxR == 1

(* Program constants *)

\* ModelSelector.__init__ defaults
n_constant == 3
min_n_components == 2
\* KFold() default number of splits
n_splits == 3

-----------------------------------------------------------------------------
(* Python values *)

Fin(v) == <<"fin", v>>
PosInf == <<"inf", 0>>
NegInf == <<"-inf", 0>>
NaN == <<"nan", 0>>
Raise == <<"raise", 0>>

\* a > b on Python floats
GT(a, b) ==
    IF a[1] = "nan" \/ b[1] = "nan" THEN FALSE
    ELSE IF a[1] = "inf" THEN b[1] # "inf"
    ELSE IF a[1] = "-inf" THEN FALSE
    ELSE b[1] = "-inf" \/ (b[1] = "fin" /\ a[2] > b[2])

\* a < b on Python floats
LT(a, b) == GT(b, a)

\* a fitted GaussianHMM is identified by its number of states
Model(k) == <<"model", k>>
None == <<"None", 0>>
\* an exception leaving the function
Exc == <<"exc", 0>>

\* what a score call can do: return a finite log-likelihood of S, or raise
ScoreOutcomes(S) == {Fin(v) : v \in S} \cup {Raise}

\* the log-likelihoods SelectorBIC, SelectorDIC / SelectorCV and recognize see
BICScores == (-MaxL)..MaxL
DICScores == (-MaxS)..1
RecScores == (-MaxR)..0

Candidates == min_n_components..max_n_components
FitDomain == Candidates \cup {n_constant}
Strategies == {"Constant", "BIC", "DIC", "CV"}

\* the attributes ModelSelector.__init__ sets on self
InstanceAttrs ==
    {"words", "hwords", "sequences", "X", "lengths", "this_word", "n_constant",
     "min_n_components", "max_n_components", "random_state", "verbose"}

Words == {"A", "B", "C"}
TestIds == {"t1", "t2"}

\* the sequences of distinct elements of S of length at most k
RECURSIVE DistinctSeqs(_, _)
DistinctSeqs(S, k) ==
    IF k = 0 THEN {<< >>}
    ELSE LET shorter == DistinctSeqs(S, k - 1)
         IN  shorter \cup
             {Append(s[1], s[2]) :
                 s \in {t \in shorter \X S :
                          /\ Len(t[1]) = k - 1
                          /\ \A a \in 1..Len(t[1]) : t[1][a] # t[2]}}

-----------------------------------------------------------------------------
VARIABLES
    \* ---- selectors: inputs
    strategy,     \* which ModelSelector subclass select is called on
    fitOK,        \* fitOK[k]: GaussianHMM(n_components=k).fit(X, lengths) succeeds
    shapeD,       \* self.X.shape[1]
    logN,         \* np.log(self.X.shape[0])
    numWords,     \* len(self.words)
    npScalar,     \* model.score returns a numpy float64 (division by zero gives
                  \* inf/nan) rather than a Python float (ZeroDivisionError)
    numSeq,       \* len(self.sequences)
    cvScore,      \* cvScore[k]: the sum of the held-out fold scores of candidate k
    \* ---- selectors: state of one select call
    pc,           \* "select" while the call runs, "done" once it returned
    n,            \* the loop variable of SelectorBIC / SelectorDIC
    acc,          \* lbicModel / ldicModel, the (model, score) accumulator
    hist,         \* what happened to each candidate (history)
    result,       \* the value select returned
    raised,       \* an exception escaped select
    \* ---- recognize: inputs
    models,       \* the keys of the models dict, in iteration order
    test_seqs,    \* test_set.get_all_sequences(), in iteration order
    \* ---- recognize: state of one call
    rpc,          \* "seq" (top of outer loop), "word" (inner loop), "done"
    si,           \* index of the current test sequence
    wi,           \* index of the next word of the inner loop
    prob,         \* the dict of the current sequence, as a list of <<key, value>>
    bestOption,   \* (word, logL)
    probabilities,
    guesses,
    scored        \* history: the <<sequence, word, outcome>> of every score call

selVars == <<strategy, fitOK, shapeD, logN, numWords, npScalar, numSeq, cvScore,
             pc, n, acc, hist, result, raised>>
recVars == <<models, test_seqs, rpc, si, wi, prob, bestOption, probabilities,
             guesses, scored>>
vars == <<selVars, recVars>>

Pending == [st |-> "pending", L |-> 0, O |-> 0, score |-> NaN]

SelIdle ==
    /\ strategy = "Constant"
    /\ fitOK = [k \in FitDomain |-> TRUE]
    /\ shapeD = 1 /\ logN = 0 /\ numWords = 1 /\ npScalar = FALSE /\ numSeq = 1
    /\ cvScore = [k \in Candidates |-> Raise]
    /\ pc = "done" /\ n = min_n_components /\ acc = <<None, NegInf>>
    /\ hist = [k \in Candidates |-> Pending]
    /\ result = None /\ raised = FALSE

RecIdle ==
    /\ models = << >> /\ test_seqs = << >>
    /\ rpc = "done" /\ si = 1 /\ wi = 1
    /\ prob = << >> /\ bestOption = <<"", NegInf>>
    /\ probabilities = << >> /\ guesses = << >> /\ scored = {}

-----------------------------------------------------------------------------
(* ModelSelector.base_model *)

\* the except clause catches every failure of fit and returns None
base_model_noexcept(num_states) ==
    IF fitOK[num_states] THEN Model(num_states) ELSE Exc
base_model(num_states) ==
    IF fitOK[num_states] THEN Model(num_states) ELSE None

-----------------------------------------------------------------------------
(* SelectorConstant.select *)

SelectorConstant_select == base_model(n_constant)

SelectConstant ==
    /\ strategy = "Constant" /\ pc = "select"
    /\ LET r == SelectorConstant_select
       IN  /\ raised' = (r = Exc)
           /\ result' = IF r = Exc THEN None ELSE r
    /\ pc' = "done"
    /\ UNCHANGED <<strategy, fitOK, shapeD, logN, numWords, npScalar, numSeq,
                   cvScore, n, acc, hist>>
    /\ UNCHANGED recVars

-----------------------------------------------------------------------------
(* SelectorBIC.select *)

\* the loop index after "except: continue"
OnExceptionBreak(k) == max_n_components + 1
OnException(k) == k + 1

\* p = n * (n-1) + (n-1) + 2 * self.X.shape[1] * n
FreeParamsNoMeans(k) == k * (k - 1) + (k - 1)
FreeParams(k) == k * (k - 1) + (k - 1) + 2 * shapeD * k

\* bic = (-2 * logL) + (p * np.log(self.X.shape[0]))
BicScore(k, logL) == Fin((-2 * logL) + (FreeParams(k) * logN))

\* lbicModel = (model, bic) if bic < lbicModel[1] else lbicModel
BICUpdateNonStrict(lbicModel, model, bic) ==
    IF ~GT(bic, lbicModel[2]) THEN <<model, bic>> ELSE lbicModel
BICUpdate(lbicModel, model, bic) ==
    IF LT(bic, lbicModel[2]) THEN <<model, bic>> ELSE lbicModel

\* one iteration of "for n in range(min_n_components, max_n_components + 1)"
BICStep ==
    /\ strategy = "BIC" /\ pc = "select" /\ n <= max_n_components
    /\ \E sc \in ScoreOutcomes(BICScores) :
         LET model == base_model(n)
             fitted == model \notin {None, Exc}
             ok == fitted /\ sc # Raise
             bic == BicScore(n, sc[2])
         IN  /\ acc' = IF ok THEN BICUpdate(acc, model, bic) ELSE acc
             /\ hist' = [hist EXCEPT ![n] =
                           IF ~fitted THEN [Pending EXCEPT !.st = "fitfail"]
                           ELSE IF sc = Raise THEN [Pending EXCEPT !.st = "scorefail"]
                           ELSE [st |-> "ok", L |-> sc[2], O |-> 0, score |-> bic]]
             /\ n' = IF ok THEN n + 1 ELSE OnException(n)
    /\ UNCHANGED <<strategy, fitOK, shapeD, logN, numWords, npScalar, numSeq,
                   cvScore, pc, result, raised>>
    /\ UNCHANGED recVars

\* return lbicModel[0]
BICReturn ==
    /\ strategy = "BIC" /\ pc = "select" /\ n > max_n_components
    /\ result' = acc[1]
    /\ pc' = "done"
    /\ UNCHANGED <<strategy, fitOK, shapeD, logN, numWords, npScalar, numSeq,
                   cvScore, n, acc, hist, raised>>
    /\ UNCHANGED recVars

-----------------------------------------------------------------------------
(* SelectorDIC.select *)

RECURSIVE SumTo(_, _)
\* sum(f[1..k])
SumTo(f, k) == IF k = 0 THEN 0 ELSE f[k] + SumTo(f, k - 1)

\* dic = logL - sumAllLogL/(len(self.words)-1), in units of 1/(len(self.words)-1)
\* when the divisor is not zero.  With a zero divisor a Python float raises
\* ZeroDivisionError and a numpy float64 gives sumAllLogL/0 = -inf, inf or nan.
DicScore(logL, sumAllLogL) ==
    IF numWords - 1 # 0 THEN Fin((numWords - 1) * logL - sumAllLogL)
    ELSE IF ~npScalar THEN Raise
    ELSE IF sumAllLogL < 0 THEN PosInf
    ELSE IF sumAllLogL > 0 THEN NegInf
    ELSE NaN

\* ldicModel = (model, dic) if dic > ldicModel[1] else ldicModel
DICUpdate(ldicModel, model, dic) ==
    IF GT(dic, ldicModel[2]) THEN <<model, dic>> ELSE ldicModel

\* one iteration of the loop; word 1 is this_word, sc[w] is the outcome of
\* model.score on word w's data
DICStep ==
    /\ strategy = "DIC" /\ pc = "select" /\ n <= max_n_components
    /\ \E sc \in [1..numWords -> ScoreOutcomes(DICScores)] :
         LET model == base_model(n)
             fitted == model \notin {None, Exc}
             scoresOK == \A w \in 1..numWords : sc[w] # Raise
             logL == sc[1][2]
             sumAllLogL == SumTo([w \in 1..numWords |-> sc[w][2]], numWords)
             dic == DicScore(logL, sumAllLogL)
             ok == fitted /\ scoresOK /\ dic # Raise
         IN  /\ acc' = IF ok THEN DICUpdate(acc, model, dic) ELSE acc
             /\ hist' = [hist EXCEPT ![n] =
                           IF ~fitted THEN [Pending EXCEPT !.st = "fitfail"]
                           ELSE IF ~scoresOK THEN [Pending EXCEPT !.st = "scorefail"]
                           ELSE [st |-> IF dic = Raise THEN "divzero" ELSE "ok",
                                 L |-> logL, O |-> sumAllLogL - logL,
                                 score |-> IF dic = Raise THEN NaN ELSE dic]]
             /\ n' = IF ok THEN n + 1 ELSE OnException(n)
    /\ UNCHANGED <<strategy, fitOK, shapeD, logN, numWords, npScalar, numSeq,
                   cvScore, pc, result, raised>>
    /\ UNCHANGED recVars

\* return ldicModel[0]
DICReturn ==
    /\ strategy = "DIC" /\ pc = "select" /\ n > max_n_components
    /\ result' = acc[1]
    /\ pc' = "done"
    /\ UNCHANGED <<strategy, fitOK, shapeD, logN, numWords, npScalar, numSeq,
                   cvScore, n, acc, hist, raised>>
    /\ UNCHANGED recVars

-----------------------------------------------------------------------------
(* SelectorCV.select *)

\* The try block: "for nComp in self.n_components" reads an attribute that
\* __init__ never sets, so the AttributeError is caught before any candidate is
\* fitted and means stays [].  (Were the attribute present, the first
\* "means.append(np.mean(fold_scores))" would raise NameError, fold_scores being
\* undefined, and means would stay [] as well.)
\* Neither numSeq nor cvScore is ever read: no fold is split or scored.
CVMeans ==
    IF "n_components" \notin InstanceAttrs
    THEN << >>    \* AttributeError at the loop head, caught by "except: pass"
    ELSE << >>    \* NameError at the first means.append, caught as well

\* states = self.n_components[np.argmax(means)] if means else self.n_constant
CVStatesMin(means) ==
    IF means # << >> THEN Exc ELSE Model(min_n_components)
CVStates(means) ==
    IF means # << >> THEN Exc    \* AttributeError on self.n_components, not caught
    ELSE Model(n_constant)

\* return self.base_model(states)
SelectorCV_select ==
    LET states == CVStates(CVMeans)
    IN  IF states = Exc THEN Exc ELSE base_model(states[2])

SelectCV ==
    /\ strategy = "CV" /\ pc = "select"
    /\ LET r == SelectorCV_select
       IN  /\ raised' = (r = Exc)
           /\ result' = IF r = Exc THEN None ELSE r
    /\ pc' = "done"
    /\ UNCHANGED <<strategy, fitOK, shapeD, logN, numWords, npScalar, numSeq,
                   cvScore, n, acc, hist>>
    /\ UNCHANGED recVars

-----------------------------------------------------------------------------
(* One select call of one selector *)

Init ==
    /\ strategy \in Strategies
    /\ fitOK \in [FitDomain -> BOOLEAN]
    /\ shapeD \in IF strategy = "BIC" THEN 1..MaxD ELSE {1}
    /\ logN \in IF strategy = "BIC" THEN 0..MaxLogN ELSE {0}
    /\ numWords \in IF strategy = "DIC" THEN 1..MaxWords ELSE {1}
    /\ npScalar \in IF strategy = "DIC" /\ numWords = 1 THEN BOOLEAN ELSE {FALSE}
    /\ numSeq \in IF strategy = "CV" THEN 1..MaxSeq ELSE {1}
    /\ cvScore \in IF strategy = "CV"
                   THEN [Candidates -> ScoreOutcomes(DICScores)]
                   ELSE {[k \in Candidates |-> Raise]}
    /\ pc = "select"
    /\ n = min_n_components
    \* lbicModel = (None, float("inf")); ldicModel = (None, float("-inf"))
    /\ acc = IF strategy = "BIC" THEN <<None, PosInf>> ELSE <<None, NegInf>>
    /\ hist = [k \in Candidates |-> Pending]
    /\ result = None
    /\ raised = FALSE
    /\ RecIdle

Next ==
    \/ SelectConstant
    \/ BICStep
    \/ BICReturn
    \/ DICStep
    \/ DICReturn
    \/ SelectCV

Spec == Init /\ [][Next]_vars
-----------------------------------------------------------------------------
(* recognize *)

\* try: logL = model.score(X, lengths)  except: logL = float("-inf")
ScoreOrZero(outcome) == IF outcome = Raise THEN Fin(0) ELSE outcome
ScoreOrNegInf(outcome) == IF outcome = Raise THEN NegInf ELSE outcome

\* prob[word] = logL on an insertion-ordered dict
DictSet(d, key, v) ==
    IF \E k \in 1..Len(d) : d[k][1] = key
    THEN [k \in 1..Len(d) |-> IF d[k][1] = key THEN <<key, v>> ELSE d[k]]
    ELSE Append(d, <<key, v>>)

\* bestOption = (word, logL) if logL > bestOption[1] else bestOption
RecUpdateNonStrict(best, word, logL) ==
    IF ~LT(logL, best[2]) THEN <<word, logL>> ELSE best
RecUpdate(best, word, logL) ==
    IF GT(logL, best[2]) THEN <<word, logL>> ELSE best

\* guesses.append(bestOption[0])
AppendGuessIfAny(gs, best) == IF best[1] = "" THEN gs ELSE Append(gs, best[1])
AppendGuess(gs, best) == Append(gs, best[1])

\* top of "for sequence in test_set.get_all_sequences()"
RecSeqStart ==
    /\ rpc = "seq" /\ si <= Len(test_seqs)
    /\ bestOption' = <<"", NegInf>>
    /\ prob' = << >>
    /\ wi' = 1
    /\ rpc' = "word"
    /\ UNCHANGED <<models, test_seqs, si, probabilities, guesses, scored>>
    /\ UNCHANGED selVars

\* one iteration of "for word, model in models.items()"
RecScoreWord ==
    /\ rpc = "word" /\ wi <= Len(models)
    /\ \E outcome \in ScoreOutcomes(RecScores) :
         LET word == models[wi]
             logL == ScoreOrNegInf(outcome)
         IN  /\ prob' = DictSet(prob, word, logL)
             /\ bestOption' = RecUpdate(bestOption, word, logL)
             /\ scored' = scored \cup {<<test_seqs[si], word, outcome>>}
    /\ wi' = wi + 1
    /\ UNCHANGED <<models, test_seqs, rpc, si, probabilities, guesses>>
    /\ UNCHANGED selVars

\* probabilities.append(prob); guesses.append(bestOption[0])
RecAppend ==
    /\ rpc = "word" /\ wi > Len(models)
    /\ probabilities' = Append(probabilities, prob)
    /\ guesses' = AppendGuess(guesses, bestOption)
    /\ si' = si + 1
    /\ rpc' = "seq"
    /\ UNCHANGED <<models, test_seqs, wi, prob, bestOption, scored>>
    /\ UNCHANGED selVars

\* return (probabilities, guesses)
RecReturn ==
    /\ rpc = "seq" /\ si > Len(test_seqs)
    /\ rpc' = "done"
    /\ UNCHANGED <<models, test_seqs, si, wi, prob, bestOption, probabilities,
                   guesses, scored>>
    /\ UNCHANGED selVars

InitRec ==
    /\ SelIdle
    /\ models \in DistinctSeqs(Words, MaxModels)
    /\ test_seqs \in DistinctSeqs(TestIds, Cardinality(TestIds))
    /\ rpc = "seq" /\ si = 1 /\ wi = 1
    /\ prob = << >> /\ bestOption = <<"", NegInf>>
    /\ probabilities = << >> /\ guesses = << >> /\ scored = {}

NextRec ==
    \/ RecSeqStart
    \/ RecScoreWord
    \/ RecAppend
    \/ RecReturn

SpecRec == InitRec /\ [][NextRec]_vars
-----------------------------------------------------------------------------
(* Properties of the selectors, checked under Spec *)

BicOrDic == strategy \in {"BIC", "DIC"}

\* candidate k was fitted and every score call made for it returned
Succeeded(k) == hist[k].st \in {"ok", "divzero"}
\* candidate k was given a score
Scored(k) == hist[k].st = "ok"

\* C1 as stated: in SelectorBIC.select and SelectorDIC.select every candidate of
\* the range is tried whatever failed before it, and select returns a model
\* exactly when some candidate fits and scores successfully.
C1_SkipAndContinue_AsStated ==
    (pc = "done" /\ BicOrDic) =>
        /\ \A k \in Candidates : hist[k].st # "pending"
        /\ (result # None) <=> (\E k \in Candidates : Succeeded(k))

\* C1 as amended: the same, for SelectorDIC only when the dataset holds at
\* least two items (len(self.words) - 1 is not zero).
C1_SkipAndContinue ==
    (pc = "done" /\ BicOrDic /\ (strategy = "DIC" => numWords >= 2)) =>
        /\ \A k \in Candidates : hist[k].st # "pending"
        /\ (result # None) <=> (\E k \in Candidates : Succeeded(k))

\* a failed candidate is followed by a successful one, which is returned
C1_Witness ==
    /\ pc = "done" /\ strategy = "DIC" /\ numWords >= 2
    /\ \E k \in Candidates :
         /\ hist[k].st = "ok" /\ result = Model(k)
         /\ \E j \in Candidates : j < k /\ hist[j].st \in {"fitfail", "scorefail"}

\* C2: for every strategy and every combination of fit and score failures,
\* select runs to its return (it can always take its next step), returns a
\* model that was fitted or None, and no exception escapes it.
C2_NoExceptionEscapes ==
    /\ ~raised
    /\ pc = "select" => (ENABLED Next /\ n <= max_n_components + 1)
    /\ pc = "done" =>
         \/ result = None
         \/ \E k \in FitDomain : fitOK[k] /\ result = Model(k)

\* one candidate fails to fit, another fails to score, and None comes back
C2_Witness ==
    /\ pc = "done" /\ strategy = "DIC" /\ result = None /\ ~raised
    /\ \E k, j \in Candidates :
         hist[k].st = "fitfail" /\ hist[j].st = "scorefail"

\* BIC = -2 * L + p * ln(N) with p = n*(n-1) + (n-1) + 2*D*n, from the
\* candidate's recorded log-likelihood
StatedBIC(k) ==
    (-2 * hist[k].L) + ((k * (k - 1) + (k - 1) + 2 * shapeD * k) * logN)

\* C3: SelectorBIC.select returns a successfully scored candidate, scored by the
\* BIC formula, whose BIC is <= the BIC of every successfully scored candidate.
C3_BICMinimal ==
    (pc = "done" /\ strategy = "BIC" /\ \E k \in Candidates : Scored(k)) =>
        \E k \in Candidates :
            /\ result = Model(k) /\ Scored(k)
            /\ hist[k].score = Fin(StatedBIC(k))
            /\ \A j \in Candidates : Scored(j) => StatedBIC(k) <= StatedBIC(j)

\* the larger candidate wins against the penalty: its BIC is strictly lower
C3_Witness ==
    /\ pc = "done" /\ strategy = "BIC" /\ logN >= 1
    /\ \E k, j \in Candidates :
         /\ j < k /\ Scored(j) /\ Scored(k) /\ result = Model(k)
         /\ StatedBIC(k) < StatedBIC(j)

\* DIC as stated: own log-likelihood minus the average log-likelihood on every
\* other item's data, in units of 1/(numWords - 1)
StatedDIC(k) == ((numWords - 1) * hist[k].L) - hist[k].O

\* C4: SelectorDIC.select returns a successfully scored candidate that maximizes
\* DIC, the candidate's own log-likelihood minus the average of the same model's
\* log-likelihoods on every other item's data (the target item excluded).
C4_DICMaximal ==
    (/\ pc = "done" /\ strategy = "DIC" /\ numWords >= 2
     /\ \E k \in Candidates : Scored(k)) =>
        \E k \in Candidates :
            /\ result = Model(k) /\ Scored(k)
            /\ \A j \in Candidates : Scored(j) => StatedDIC(k) >= StatedDIC(j)

\* candidate k would produce fold scores: it fits and every fold is scored
ProducesFoldScores(k) == fitOK[k] /\ cvScore[k] # Raise

\* C5: when the item has at least n_splits sequences and some candidate produces
\* fold scores, SelectorCV.select returns the model refit on the full data at
\* the state count with the maximal mean held-out log-likelihood.
C5_CVArgmax ==
    (/\ pc = "done" /\ strategy = "CV" /\ numSeq >= n_splits
     /\ \E k \in Candidates : ProducesFoldScores(k)) =>
        \E k \in Candidates :
            /\ ProducesFoldScores(k)
            /\ \A j \in Candidates :
                 ProducesFoldScores(j) => cvScore[k][2] >= cvScore[j][2]
            /\ result = Model(k)

\* C6: when the item has fewer sequences than folds, or no candidate yields a
\* fold score, SelectorCV.select returns what SelectorConstant.select returns:
\* the model fitted at n_constant states, or None if that fit fails.
C6_CVFallback ==
    (/\ pc = "done" /\ strategy = "CV"
     /\ \/ numSeq < n_splits
        \/ \A k \in Candidates : ~ProducesFoldScores(k)) =>
        /\ ~raised
        /\ result = SelectorConstant_select
        /\ result = IF fitOK[n_constant] THEN Model(n_constant) ELSE None

\* too few sequences for the folds, and the constant model comes back
C6_Witness ==
    /\ pc = "done" /\ strategy = "CV" /\ numSeq < n_splits
    /\ fitOK[n_constant] /\ result = Model(n_constant)
    /\ \E k \in Candidates : k # n_constant /\ fitOK[k]

\* score a is strictly better than score b for the running strategy
StrictlyBetter(a, b) == IF strategy = "BIC" THEN LT(a, b) ELSE GT(a, b)

\* C10: in SelectorBIC.select and SelectorDIC.select the accumulator is replaced
\* only by a candidate with a strictly better score, and the returned model has
\* the smallest state count among the scored candidates that share its score,
\* none of which has a strictly better one.
C10_StrictReplacement ==
    /\ [][(BicOrDic /\ acc' # acc) => StrictlyBetter(acc'[2], acc[2])]_vars
    /\ [](\A k \in Candidates :
            (pc = "done" /\ BicOrDic /\ result = Model(k)) =>
                /\ Scored(k)
                /\ \A j \in Candidates :
                     Scored(j) =>
                        /\ ~StrictlyBetter(hist[j].score, hist[k].score)
                        /\ hist[j].score = hist[k].score => k <= j)

\* two scored candidates tie for the best score and the smaller is returned
C10_Witness ==
    /\ pc = "done" /\ BicOrDic
    /\ \E k, j \in Candidates :
         /\ k < j /\ Scored(k) /\ Scored(j)
         /\ hist[k].score = hist[j].score
         /\ result = Model(k)

-----------------------------------------------------------------------------
(* Properties of recognize, checked under SpecRec *)

SeqIdx == 1..Len(test_seqs)
WordIdx == 1..Len(models)

\* C7: a score call that fails is recorded as -inf, every model is still scored
\* against every test sequence, and a model whose recorded score is -inf is
\* never the guess, even when every model fails.
C7_FailureIsNegInf ==
    /\ rpc # "done" => ENABLED NextRec
    /\ rpc = "done" =>
         /\ Len(probabilities) = Len(test_seqs)
         /\ Len(guesses) = Len(test_seqs)
         /\ \A i \in SeqIdx :
              /\ Len(probabilities[i]) = Len(models)
              /\ \A j \in WordIdx :
                   /\ \E o \in ScoreOutcomes(RecScores) :
                        <<test_seqs[i], models[j], o>> \in scored
                   /\ <<test_seqs[i], models[j], Raise>> \in scored =>
                        probabilities[i][j] = <<models[j], NegInf>>
                   /\ probabilities[i][j][2] = NegInf => guesses[i] # models[j]

\* every model fails on the first sequence; on the second the first model
\* fails and the second is the guess
C7_Witness ==
    /\ rpc = "done" /\ Len(test_seqs) = 2 /\ Len(models) = 2
    /\ <<test_seqs[1], models[1], Raise>> \in scored
    /\ <<test_seqs[1], models[2], Raise>> \in scored
    /\ guesses[1] = ""
    /\ <<test_seqs[2], models[1], Raise>> \in scored
    /\ guesses[2] = models[2]

\* models[j] holds the maximal recorded score of d and is the first to hold it
FirstMax(d, j) ==
    /\ d[j][1] = models[j]
    /\ \A k \in WordIdx : ~GT(d[k][2], d[j][2])
    /\ \A k \in WordIdx : k < j => d[k][2] # d[j][2]

\* C8 as stated: for every test sequence the guess is the item whose recorded
\* score is maximal, the first such item in the mapping's iteration order.
C8_GuessIsFirstMax_AsStated ==
    (rpc = "done" /\ Len(models) > 0) =>
        \A i \in SeqIdx :
            \E j \in WordIdx :
                guesses[i] = models[j] /\ FirstMax(probabilities[i], j)

\* C8 as amended: the same when some recorded score is above -inf; when every
\* recorded score is -inf (or the mapping is empty) the guess is "".
C8_GuessIsFirstMax ==
    rpc = "done" =>
        \A i \in SeqIdx :
            IF \E j \in WordIdx : GT(probabilities[i][j][2], NegInf)
            THEN \E j \in WordIdx :
                     guesses[i] = models[j] /\ FirstMax(probabilities[i], j)
            ELSE guesses[i] = ""

\* two models tie for the maximal score and the first is the guess, and on the
\* other sequence every model fails
C8_Witness ==
    /\ rpc = "done" /\ Len(models) = 2 /\ Len(test_seqs) = 2
    /\ probabilities[1][1][2] = Fin(0) /\ probabilities[1][2][2] = Fin(0)
    /\ guesses[1] = models[1]
    /\ probabilities[2][1][2] = NegInf /\ probabilities[2][2][2] = NegInf
    /\ guesses[2] = ""

\* C9: recognize returns two lists with one entry per test sequence; entry i of
\* both comes from the score calls made for the i-th test sequence, and each
\* score mapping has exactly one entry per key of the model mapping, in the
\* mapping's key order.
C9_OutputAligned ==
    rpc = "done" =>
        /\ Len(probabilities) = Len(test_seqs)
        /\ Len(guesses) = Len(test_seqs)
        /\ \A i \in SeqIdx :
             /\ Len(probabilities[i]) = Len(models)
             /\ \A j \in WordIdx :
                  /\ probabilities[i][j][1] = models[j]
                  /\ \A o \in ScoreOutcomes(RecScores) :
                       <<test_seqs[i], models[j], o>> \in scored =>
                          probabilities[i][j][2] = IF o = Raise THEN NegInf ELSE o
                  /\ \E o \in ScoreOutcomes(RecScores) :
                       <<test_seqs[i], models[j], o>> \in scored
             /\ \/ guesses[i] = ""
                \/ \E j \in WordIdx :
                     /\ guesses[i] = models[j]
                     /\ \A k \in WordIdx :
                          ~GT(probabilities[i][k][2], probabilities[i][j][2])

\* two sequences with different scores and different guesses, the first without
\* a guess
C9_Witness ==
    /\ rpc = "done" /\ Len(test_seqs) = 2 /\ Len(models) = 2
    /\ probabilities[1] # probabilities[2]
    /\ guesses[1] = "" /\ guesses[2] = models[2]

====
